---- MODULE Spec2Model ----
(***************************************************************************)
(* Model of pkg/reconciling/defaults.go: DefaultContainer, DefaultPodSpec  *)
(* and the four reconciler wrappers DefaultDeployment, DefaultStatefulSet, *)
(* DefaultDaemonSet and DefaultCronJob.                                    *)
(*                                                                         *)
(* Go values are modelled as records.  A Go pointer is a sequence of       *)
(* length 0 (nil) or 1 (a pointer to its element); an unset string is "".  *)
(***************************************************************************)
EXTENDS Integers, Sequences, FiniteSets, TLC

VARIABLES
    oldPodSpec,     \* DefaultPodSpec: the oldPodSpec argument
    newPodSpec,     \* DefaultPodSpec: the newPodSpec argument as it arrived
    podResult,      \* DefaultPodSpec: nil before the call, then the returned PodSpec
    template,       \* the pod template the inner reconciler builds on every call
    obj,            \* the workload object the control loop holds and passes in
    old,            \* wrapper: old := d.DeepCopy() of the last call (nil before)
    proposed,       \* wrapper: what the inner reconciler returned, object and error (nil before)
    ret,            \* wrapper: the returned object pointer (nil, or the object)
    err,            \* wrapper: the returned error ("" is nil)
    calls           \* number of calls of the wrapped reconciler so far

vars == <<oldPodSpec, newPodSpec, podResult, template, obj, old, proposed, ret, err,
          calls>>

podVars == <<oldPodSpec, newPodSpec, podResult>>
wrapVars == <<template, obj, old, proposed, ret, err, calls>>

----------------------------------------------------------------------------
(* Pointers *)

Nil == <<>>
Ptr(v) == <<v>>

(* Values of the Kubernetes API the code refers to *)

PullIfNotPresent == "IfNotPresent"
TerminationMessagePathDefault == "/dev/termination-log"
TerminationMessageReadFile == "File"
SecretVolumeSourceDefaultMode == 420
ConfigMapVolumeSourceDefaultMode == 420
SeccompProfileTypeRuntimeDefault == "RuntimeDefault"
RollingUpdateDeploymentStrategyType == "RollingUpdate"

(* Bounds of the model *)

MaxContainers == 2      \* containers of a template, init and main together
MaxEnv == 1             \* environment entries of a container
MaxVolumes == 2         \* volumes of a template
MaxCalls == 3           \* calls of a wrapped reconciler in one behaviour

SeqUpTo(S, n) == UNION {[1..k -> S] : k \in 0..n}

----------------------------------------------------------------------------
(* DefaultContainer, defaults.go:28-51 *)

DefaultEnvVar(e) ==
    IF e.ValueFrom /= Nil /\ e.ValueFrom[1].FieldRef /= Nil
        /\ e.ValueFrom[1].FieldRef[1].APIVersion = ""
    THEN [e EXCEPT !.ValueFrom = Ptr([e.ValueFrom[1] EXCEPT
                        !.FieldRef = Ptr([e.ValueFrom[1].FieldRef[1] EXCEPT
                                              !.APIVersion = "v1"])])]
    ELSE e

\* A DefaultContainer that allocates a security context to hold an inherited mode.
DefaultContainer_Fabricate(c, procMountType) ==
    [c EXCEPT
        !.ImagePullPolicy = IF @ = "" THEN PullIfNotPresent ELSE @,
        !.TerminationMessagePath = IF @ = "" THEN TerminationMessagePathDefault ELSE @,
        !.TerminationMessagePolicy = IF @ = "" THEN TerminationMessageReadFile ELSE @,
        !.Env = [idx \in DOMAIN @ |-> DefaultEnvVar(@[idx])],
        !.SecurityContext = IF @ /= Nil \/ procMountType /= Nil
                            THEN Ptr([ProcMount |-> procMountType])
                            ELSE @]

DefaultContainer(c, procMountType) ==
    [c EXCEPT
        !.ImagePullPolicy = IF @ = "" THEN PullIfNotPresent ELSE @,
        !.TerminationMessagePath = IF @ = "" THEN TerminationMessagePathDefault ELSE @,
        !.TerminationMessagePolicy = IF @ = "" THEN TerminationMessageReadFile ELSE @,
        !.Env = [idx \in DOMAIN @ |-> DefaultEnvVar(@[idx])],
        !.SecurityContext = IF @ /= Nil
                            THEN Ptr([@[1] EXCEPT !.ProcMount = procMountType])
                            ELSE @]

----------------------------------------------------------------------------
(* DefaultPodSpec, defaults.go:57-102 *)

\* The map built by one of the loops of lines 61-70: a later container of the
\* same name overwrites the entry of an earlier one.
RECURSIVE ProcMountTypes(_)
ProcMountTypes(containers) ==
    IF containers = <<>> THEN <<>>
    ELSE LET n == Len(containers)
             container == containers[n]
             m == ProcMountTypes(SubSeq(containers, 1, n - 1))
         IN IF container.SecurityContext /= Nil
            THEN [k \in (DOMAIN m) \cup {container.Name} |->
                     IF k = container.Name
                     THEN container.SecurityContext[1].ProcMount
                     ELSE m[k]]
            ELSE m

\* A lookup that never finds the name.
Lookup_Absent(m, name) == Nil

\* m[name] of a Go map: the zero value (a nil pointer) for an absent key.
Lookup(m, name) == IF name \in DOMAIN m THEN m[name] ELSE Nil

DefaultContainers(containers, m) ==
    [idx \in DOMAIN containers |->
        DefaultContainer(containers[idx], Lookup(m, containers[idx].Name))]

\* A DefaultVolume that sets the default mode whether or not a mode is set.
DefaultVolume_Overwrite(vol) ==
    [vol EXCEPT
        !.Secret = IF @ /= Nil
                   THEN Ptr([@[1] EXCEPT !.DefaultMode = Ptr(SecretVolumeSourceDefaultMode)])
                   ELSE @,
        !.ConfigMap = IF @ /= Nil
                      THEN Ptr([@[1] EXCEPT !.DefaultMode = Ptr(ConfigMapVolumeSourceDefaultMode)])
                      ELSE @]

DefaultVolume(vol) ==
    [vol EXCEPT
        !.Secret = IF @ /= Nil /\ @[1].DefaultMode = Nil
                   THEN Ptr([@[1] EXCEPT !.DefaultMode = Ptr(SecretVolumeSourceDefaultMode)])
                   ELSE @,
        !.ConfigMap = IF @ /= Nil /\ @[1].DefaultMode = Nil
                      THEN Ptr([@[1] EXCEPT !.DefaultMode = Ptr(ConfigMapVolumeSourceDefaultMode)])
                      ELSE @]

EmptyPodSecurityContext == [RunAsNonRoot |-> Nil, SeccompProfile |-> Nil]

\* The second test of lines 91-99 as an else branch of the first.
DefaultPodSecurityContext_ElseIf(sc) ==
    IF sc = Nil THEN Ptr(EmptyPodSecurityContext)
    ELSE IF sc[1].SeccompProfile = Nil
         THEN Ptr([sc[1] EXCEPT !.SeccompProfile =
                                    Ptr([Type |-> SeccompProfileTypeRuntimeDefault])])
         ELSE sc

\* A seccomp profile set whether or not one is present.
DefaultPodSecurityContext_Overwrite(sc) ==
    LET sc1 == IF sc = Nil THEN Ptr(EmptyPodSecurityContext) ELSE sc
    IN Ptr([sc1[1] EXCEPT !.SeccompProfile =
                              Ptr([Type |-> SeccompProfileTypeRuntimeDefault])])

DefaultPodSecurityContext(sc) ==
    LET sc1 == IF sc = Nil THEN Ptr(EmptyPodSecurityContext) ELSE sc
    IN IF sc1[1].SeccompProfile = Nil
       THEN Ptr([sc1[1] EXCEPT !.SeccompProfile =
                                   Ptr([Type |-> SeccompProfileTypeRuntimeDefault])])
       ELSE sc1

\* Containers matched with the previous revision by index instead of by name.
PositionalProcMountTypes(containers) ==
    [idx \in {i \in DOMAIN containers : containers[i].SecurityContext /= Nil} |->
        containers[idx].SecurityContext[1].ProcMount]

DefaultContainersByIndex(containers, m) ==
    [idx \in DOMAIN containers |-> DefaultContainer(containers[idx], Lookup(m, idx))]

DefaultPodSpec_Positional(oldSpec, newSpec) ==
    [newSpec EXCEPT
        !.InitContainers =
            DefaultContainersByIndex(@, PositionalProcMountTypes(oldSpec.InitContainers)),
        !.Containers =
            DefaultContainersByIndex(@, PositionalProcMountTypes(oldSpec.Containers)),
        !.Volumes = [idx \in DOMAIN @ |-> DefaultVolume(@[idx])],
        !.SecurityContext = DefaultPodSecurityContext(@)]

\* The map of the init containers used for the main containers as well.
DefaultPodSpec_OneMap(oldSpec, newSpec) ==
    LET initContainerProcMountType == ProcMountTypes(oldSpec.InitContainers)
    IN [newSpec EXCEPT
           !.InitContainers = DefaultContainers(@, initContainerProcMountType),
           !.Containers = DefaultContainers(@, initContainerProcMountType),
           !.Volumes = [idx \in DOMAIN @ |-> DefaultVolume(@[idx])],
           !.SecurityContext = DefaultPodSecurityContext(@)]

DefaultPodSpec(oldSpec, newSpec) ==
    LET initContainerProcMountType == ProcMountTypes(oldSpec.InitContainers)
        containerProcMountType == ProcMountTypes(oldSpec.Containers)
    IN [newSpec EXCEPT
           !.InitContainers = DefaultContainers(@, initContainerProcMountType),
           !.Containers = DefaultContainers(@, containerProcMountType),
           !.Volumes = [idx \in DOMAIN @ |-> DefaultVolume(@[idx])],
           !.SecurityContext = DefaultPodSecurityContext(@)]

----------------------------------------------------------------------------
(* The wrappers, defaults.go:106-199.  d is the object passed in; r is what  *)
(* reconciler(d) returned: the object (the input, mutated) and the error.    *)
(* Each yields the returned pointer d, the returned error err, and obj, the  *)
(* state the input object is left in.  DefaultPodSpec always returns a nil   *)
(* error, so the second error return of each wrapper is never taken.         *)

\* Rolling-update bounds defaulted whether or not the strategy type is set.
DefaultStrategy_Bounds(strategy) ==
    [strategy EXCEPT
        !.Type = IF @ = "" THEN RollingUpdateDeploymentStrategyType ELSE @,
        !.RollingUpdate =
            IF @ = Nil
            THEN Ptr([MaxSurge |-> Ptr([Type |-> "Int", IntVal |-> 1, StrVal |-> ""]),
                      MaxUnavailable |-> Ptr([Type |-> "Int", IntVal |-> 0, StrVal |-> ""])])
            ELSE @]

DefaultStrategy(strategy) ==
    IF strategy.Type = ""
    THEN [strategy EXCEPT
             !.Type = RollingUpdateDeploymentStrategyType,
             !.RollingUpdate =
                 IF @ = Nil
                 THEN Ptr([MaxSurge |-> Ptr([Type |-> "Int", IntVal |-> 1, StrVal |-> ""]),
                           MaxUnavailable |-> Ptr([Type |-> "Int", IntVal |-> 0, StrVal |-> ""])])
                 ELSE @]
    ELSE strategy

DefaultDeploymentCall(d, r) ==
    LET oldCopy == d
    IN IF r.err /= "" THEN [d |-> Nil, err |-> r.err, obj |-> r.d]
       ELSE LET d1 == [r.d EXCEPT !.Spec.Strategy = DefaultStrategy(@)]
                d2 == [d1 EXCEPT !.Spec.Template.Spec =
                                     DefaultPodSpec(oldCopy.Spec.Template.Spec, @)]
            IN [d |-> Ptr(d2), err |-> "", obj |-> d2]

DefaultStatefulSetCall(ss, r) ==
    LET oldCopy == ss
    IN IF r.err /= "" THEN [d |-> Nil, err |-> r.err, obj |-> r.d]
       ELSE LET ss1 == [r.d EXCEPT !.Spec.Template.Spec =
                                       DefaultPodSpec(oldCopy.Spec.Template.Spec, @)]
            IN [d |-> Ptr(ss1), err |-> "", obj |-> ss1]

DefaultDaemonSetCall(ds, r) ==
    LET oldCopy == ds
    IN IF r.err /= "" THEN [d |-> Nil, err |-> r.err, obj |-> r.d]
       ELSE LET ds1 == [r.d EXCEPT !.Spec.Template.Spec =
                                       DefaultPodSpec(oldCopy.Spec.Template.Spec, @)]
            IN [d |-> Ptr(ds1), err |-> "", obj |-> ds1]

\* The pod template defaulted before the error of the reconciler is looked at.
DefaultCronJobCall_DefaultFirst(cj, r) ==
    LET oldCopy == cj
        cj1 == [r.d EXCEPT !.Spec.JobTemplate.Spec.Template.Spec =
                               DefaultPodSpec(oldCopy.Spec.JobTemplate.Spec.Template.Spec, @)]
    IN IF r.err /= "" THEN [d |-> Nil, err |-> r.err, obj |-> cj1]
       ELSE [d |-> Ptr(cj1), err |-> "", obj |-> cj1]

DefaultCronJobCall(cj, r) ==
    LET oldCopy == cj
    IN IF r.err /= "" THEN [d |-> Nil, err |-> r.err, obj |-> r.d]
       ELSE LET cj1 == [r.d EXCEPT !.Spec.JobTemplate.Spec.Template.Spec =
                                       DefaultPodSpec(oldCopy.Spec.JobTemplate.Spec.Template.Spec, @)]
            IN [d |-> Ptr(cj1), err |-> "", obj |-> cj1]

----------------------------------------------------------------------------
(* Inputs *)

Names == {"app", "sidecar"}
ProcMounts == {"Unmasked"}

SecurityContexts ==
    {Nil} \cup {Ptr([ProcMount |-> p]) : p \in {Nil} \cup {Ptr(t) : t \in ProcMounts}}

EnvVars ==
    { [Name |-> "POD", ValueFrom |-> Nil],
      [Name |-> "POD", ValueFrom |-> Ptr([FieldRef |-> Nil])] }
    \cup { [Name |-> "POD",
            ValueFrom |-> Ptr([FieldRef |-> Ptr([APIVersion |-> v, FieldPath |-> "metadata.name"])])]
           : v \in {"", "v2"} }

\* Containers as a reconciler may build them: every defaulted field set or unset.
NewContainers ==
    [ Name : Names,
      ImagePullPolicy : {"", "Always"},
      TerminationMessagePath : {"", "/tmp/log"},
      TerminationMessagePolicy : {"", "FallbackToLogsOnError"},
      Env : SeqUpTo(EnvVars, MaxEnv),
      SecurityContext : SecurityContexts ]

\* Containers that differ in name and security context only.
PlainContainers(policy, path, msgPolicy) ==
    [ Name : Names,
      ImagePullPolicy : {policy},
      TerminationMessagePath : {path},
      TerminationMessagePolicy : {msgPolicy},
      Env : {<<>>},
      SecurityContext : SecurityContexts ]

\* Containers of a persisted revision: the platform has filled in the scalar fields.
OldContainers ==
    PlainContainers(PullIfNotPresent, TerminationMessagePathDefault, TerminationMessageReadFile)

\* Containers of a rebuilt revision that leave the scalar fields to the defaulting.
CarryContainers == PlainContainers("", "", "")

VolumeSources == {Nil} \cup {Ptr([DefaultMode |-> m]) : m \in {Nil, Ptr(256)}}

Volumes == [ Name : {"data"}, Secret : VolumeSources, ConfigMap : VolumeSources ]

PodSecurityContexts ==
    {Nil} \cup
    { Ptr([RunAsNonRoot |-> r, SeccompProfile |-> p]) :
        r \in {Nil, Ptr(TRUE)},
        p \in {Nil} \cup {Ptr([Type |-> t]) : t \in {"", "Unconfined"}} }

\* The init and main container lists of a template with at most n containers,
\* at most one of them an init container.
ContainerLists(C, n) ==
    { ic \in SeqUpTo(C, 1) \X SeqUpTo(C, n) : Len(ic[1]) + Len(ic[2]) <= n }

PodSpecs(C, n, V, S) ==
    { [InitContainers |-> ic[1], Containers |-> ic[2], Volumes |-> v, SecurityContext |-> s] :
        ic \in ContainerLists(C, n), v \in V, s \in S }

\* Previous revisions.
OldPodSpecs == PodSpecs(OldContainers, MaxContainers, {<<>>}, {Nil})

\* The previous revision of a first reconciliation (an empty object), and one
\* with an isolation mode on the container "app".
BaselinePodSpecs ==
    PodSpecs({c \in OldContainers : c.Name = "app" /\ c.SecurityContext \notin {Nil, Ptr([ProcMount |-> Nil])}},
             1, {<<>>}, {Nil})

\* New revisions whose containers are matched against the previous revision.
CarryPodSpecs == PodSpecs(CarryContainers, MaxContainers, {<<>>}, {Nil})

\* New revisions with one container whose fields are defaulted.
ContainerPodSpecs == PodSpecs(NewContainers, 1, {<<>>}, {Nil})

\* New revisions whose volumes and pod-level security context are defaulted.
PodLevelPodSpecs ==
    PodSpecs(CarryContainers, 1, SeqUpTo(Volumes, MaxVolumes), PodSecurityContexts)

\* The arguments of a call of DefaultPodSpec.
Inputs(oldSpec, newSpec) ==
    \/ oldSpec \in OldPodSpecs /\ newSpec \in CarryPodSpecs
    \/ oldSpec \in BaselinePodSpecs /\ newSpec \in ContainerPodSpecs
    \/ oldSpec \in BaselinePodSpecs /\ newSpec \in PodLevelPodSpecs

\* Intstr values of a rolling-update bound.
IntOrStrings ==
    { Nil, Ptr([Type |-> "Int", IntVal |-> 2, StrVal |-> ""]),
      Ptr([Type |-> "String", IntVal |-> 0, StrVal |-> "25%"]) }

Strategies ==
    [ Type : {"", "Recreate"},
      RollingUpdate : {Nil, Ptr([MaxSurge |-> Nil, MaxUnavailable |-> Nil]),
                       Ptr([MaxSurge |-> Ptr([Type |-> "Int", IntVal |-> 2, StrVal |-> ""]),
                            MaxUnavailable |-> Ptr([Type |-> "String", IntVal |-> 0, StrVal |-> "25%"])])} ]

UpdateStrategies == [ Type : {"", "OnDelete"} ]
ConcurrencyPolicies == {"", "Forbid"}

Kinds == {"Deployment", "StatefulSet", "DaemonSet", "CronJob"}

\* The pod templates of the objects a control loop starts from: at most one
\* container, an init or a main one.
StartPodSpecs == PodSpecs(OldContainers, 1, {<<>>}, {Nil})

\* The pod templates an inner reconciler rebuilds: main containers only.
TemplatePodSpecs ==
    { [InitContainers |-> <<>>, Containers |-> c, Volumes |-> <<>>, SecurityContext |-> Nil] :
        c \in SeqUpTo(CarryContainers, MaxContainers) }

Objects(P) ==
    { [Kind |-> "Deployment", Spec |-> [Strategy |-> st, Template |-> [Spec |-> ps]]] :
        st \in Strategies, ps \in P }
    \cup { [Kind |-> k, Spec |-> [UpdateStrategy |-> us, Template |-> [Spec |-> ps]]] :
             k \in {"StatefulSet", "DaemonSet"}, us \in UpdateStrategies, ps \in P }
    \cup { [Kind |-> "CronJob",
            Spec |-> [ConcurrencyPolicy |-> cp,
                      JobTemplate |-> [Spec |-> [Template |-> [Spec |-> ps]]]]] :
             cp \in ConcurrencyPolicies, ps \in P }

\* The errors of an inner reconciler; "" is the nil error.
InnerErrors == {"conflict", "not found"}

\* The inner reconciler of the behaviour: it discards the pod template of the
\* object it is given, rebuilds it as `template`, and returns its input object.
Rebuild(d) ==
    IF d.Kind = "CronJob"
    THEN [d EXCEPT !.Spec.JobTemplate.Spec.Template.Spec = template]
    ELSE [d EXCEPT !.Spec.Template.Spec = template]

\* What reconciler(d) may return: the rebuilt object and no error, or an error
\* with the object rebuilt or still untouched.
Reconciled(d) ==
    { [d |-> Rebuild(d), err |-> ""] }
    \cup { [d |-> o, err |-> e] : o \in {d, Rebuild(d)}, e \in InnerErrors }

----------------------------------------------------------------------------
InitPodSpec ==
    /\ Inputs(oldPodSpec, newPodSpec)
    /\ podResult = Nil
    /\ template = Nil /\ obj = Nil /\ old = Nil /\ proposed = Nil /\ ret = Nil
    /\ err = "" /\ calls = 0

CallDefaultPodSpec ==
    /\ podResult = Nil
    /\ podResult' = Ptr(DefaultPodSpec(oldPodSpec, newPodSpec))
    /\ UNCHANGED <<oldPodSpec, newPodSpec>>
    /\ UNCHANGED wrapVars

NextPodSpec == CallDefaultPodSpec

SpecPodSpec == InitPodSpec /\ [][NextPodSpec]_vars

----------------------------------------------------------------------------
(* The control loop: it calls the wrapped reconciler on the object it holds  *)
(* and stops at the first error.                                             *)

Init ==
    /\ template \in TemplatePodSpecs
    /\ obj \in Objects(StartPodSpecs)
    /\ old = Nil /\ proposed = Nil /\ ret = Nil /\ err = "" /\ calls = 0
    /\ oldPodSpec = Nil /\ newPodSpec = Nil /\ podResult = Nil

Return(r, out) ==
    /\ old' = Ptr(obj)
    /\ proposed' = Ptr(r)
    /\ ret' = out.d
    /\ err' = out.err
    /\ obj' = out.obj
    /\ calls' = calls + 1
    /\ UNCHANGED template
    /\ UNCHANGED podVars

DefaultDeployment ==
    /\ obj.Kind = "Deployment" /\ err = "" /\ calls < MaxCalls
    /\ \E r \in Reconciled(obj) : Return(r, DefaultDeploymentCall(obj, r))

DefaultStatefulSet ==
    /\ obj.Kind = "StatefulSet" /\ err = "" /\ calls < MaxCalls
    /\ \E r \in Reconciled(obj) : Return(r, DefaultStatefulSetCall(obj, r))

DefaultDaemonSet ==
    /\ obj.Kind = "DaemonSet" /\ err = "" /\ calls < MaxCalls
    /\ \E r \in Reconciled(obj) : Return(r, DefaultDaemonSetCall(obj, r))

DefaultCronJob ==
    /\ obj.Kind = "CronJob" /\ err = "" /\ calls < MaxCalls
    /\ \E r \in Reconciled(obj) : Return(r, DefaultCronJobCall(obj, r))

Next ==
    \/ DefaultDeployment
    \/ DefaultStatefulSet
    \/ DefaultDaemonSet
    \/ DefaultCronJob

Spec == Init /\ [][Next]_vars

----------------------------------------------------------------------------
(* Properties of DefaultPodSpec, checked under SpecPodSpec *)

Called == podResult /= Nil
Out == podResult[1]

Lists == {"init", "main"}
ListOf(spec, list) == IF list = "init" THEN spec.InitContainers ELSE spec.Containers

Last(S) == CHOOSE x \in S : \A y \in S : y <= x

\* The isolation mode a previous revision holds under a name: that of its
\* container of that name with a security context (the last one, should the
\* name occur more than once), nil when there is none.
Carried(containers, name) ==
    LET I == {i \in DOMAIN containers :
                 containers[i].Name = name /\ containers[i].SecurityContext /= Nil}
    IN IF I = {} THEN Nil ELSE containers[Last(I)].SecurityContext[1].ProcMount

\* C1: DefaultPodSpec is idempotent for a fixed baseline: applying it to its own
\* result, with the same old template, returns that result in every field.
C1_Idempotent ==
    Called => DefaultPodSpec(oldPodSpec, Out) = Out

\* C1 witness: a call that changed the template, with an inherited isolation
\* mode, a defaulted field reference and an allocated pod security context.
C1_Witness ==
    /\ Called
    /\ Out /= newPodSpec
    /\ newPodSpec.SecurityContext = Nil
    /\ \/ \E j \in DOMAIN Out.Containers :
              /\ Out.Containers[j].SecurityContext = Ptr([ProcMount |-> Ptr("Unmasked")])
              /\ newPodSpec.Containers[j].SecurityContext = Ptr([ProcMount |-> Nil])
       \/ \E j \in DOMAIN Out.Containers :
              /\ Out.Containers[j].Env /= newPodSpec.Containers[j].Env
              /\ Out.Containers[j].ImagePullPolicy /= newPodSpec.Containers[j].ImagePullPolicy

\* C2 as claimed: where the old template holds isolation mode M under name n in
\* a list, every container named n in that list of the result has isolation
\* mode M, whether or not it arrived with a security context.
C2_CarryForwardAlways ==
    Called =>
        \A list \in Lists : \A j \in DOMAIN ListOf(Out, list) :
            LET c == ListOf(Out, list)[j]
                m == Carried(ListOf(oldPodSpec, list), c.Name)
            IN m /= Nil => c.SecurityContext /= Nil /\ c.SecurityContext[1].ProcMount = m

\* C2 as amended: where the old template holds isolation mode M under name n in
\* a list, every container named n in that list that arrived with a security
\* context has isolation mode M in the result, whatever mode it arrived with.
C2_CarryForward ==
    Called =>
        \A list \in Lists : \A j \in DOMAIN ListOf(newPodSpec, list) :
            LET c == ListOf(newPodSpec, list)[j]
                m == Carried(ListOf(oldPodSpec, list), c.Name)
            IN (m /= Nil /\ c.SecurityContext /= Nil) =>
                   /\ j \in DOMAIN ListOf(Out, list)
                   /\ ListOf(Out, list)[j].Name = c.Name
                   /\ ListOf(Out, list)[j].SecurityContext = Ptr([ProcMount |-> m])

\* C2 witness: a container that arrived with an unset isolation mode under a
\* name whose old container holds a mode.
C2_Witness ==
    /\ Called
    /\ \E list \in Lists : \E j \in DOMAIN ListOf(newPodSpec, list) :
           /\ ListOf(newPodSpec, list)[j].SecurityContext = Ptr([ProcMount |-> Nil])
           /\ Carried(ListOf(oldPodSpec, list), ListOf(newPodSpec, list)[j].Name) /= Nil

\* C3: the isolation mode of a container that carries a security context is,
\* after DefaultPodSpec, that of the old container of the same name in the same
\* list if one with a security context exists, at whatever index either stands,
\* and unset if no old container has that name, whatever value it arrived with.
C3_NameKeyed ==
    Called =>
        \A list \in Lists : \A j \in DOMAIN ListOf(newPodSpec, list) :
            LET c == ListOf(newPodSpec, list)[j]
                olds == ListOf(oldPodSpec, list)
                same == {i \in DOMAIN olds : olds[i].Name = c.Name}
                with == {i \in same : olds[i].SecurityContext /= Nil}
                mode == ListOf(Out, list)[j].SecurityContext[1].ProcMount
            IN c.SecurityContext /= Nil =>
                   /\ ListOf(Out, list)[j].SecurityContext /= Nil
                   /\ same = {} => mode = Nil
                   /\ \A i \in with :
                          (\A k \in with : k <= i) => mode = olds[i].SecurityContext[1].ProcMount

\* C3 witness: two main containers that changed places between the revisions,
\* the old ones with different modes, one of the new ones arriving with a mode
\* that is not the one of its name.
C3_Witness ==
    /\ Called
    /\ Len(oldPodSpec.Containers) = 2 /\ Len(newPodSpec.Containers) = 2
    /\ oldPodSpec.Containers[1].Name = newPodSpec.Containers[2].Name
    /\ oldPodSpec.Containers[2].Name = newPodSpec.Containers[1].Name
    /\ oldPodSpec.Containers[1].Name /= oldPodSpec.Containers[2].Name
    /\ oldPodSpec.Containers[1].SecurityContext = Ptr([ProcMount |-> Ptr("Unmasked")])
    /\ oldPodSpec.Containers[2].SecurityContext = Ptr([ProcMount |-> Nil])
    /\ newPodSpec.Containers[1].SecurityContext = Ptr([ProcMount |-> Ptr("Unmasked")])
    /\ newPodSpec.Containers[2].SecurityContext = Ptr([ProcMount |-> Nil])

\* C4: the template DefaultPodSpec returns has a pod-level security context
\* with a seccomp profile whose type is not empty.
C4_SeccompTypePopulated ==
    Called =>
        /\ Out.SecurityContext /= Nil
        /\ Out.SecurityContext[1].SeccompProfile /= Nil
        /\ Out.SecurityContext[1].SeccompProfile[1].Type /= ""

\* C5: a template without a pod-level security context, or with one that has
\* no seccomp profile, gets a profile of type RuntimeDefault; a template that
\* has a seccomp profile keeps its pod-level security context as it is.
C5_SeccompFillOnly ==
    Called =>
        LET sc == newPodSpec.SecurityContext
        IN /\ (sc = Nil \/ sc[1].SeccompProfile = Nil) =>
                  /\ Out.SecurityContext /= Nil
                  /\ Out.SecurityContext[1].SeccompProfile =
                         Ptr([Type |-> SeccompProfileTypeRuntimeDefault])
           /\ (sc /= Nil /\ sc[1].SeccompProfile /= Nil) => Out.SecurityContext = sc

\* C5 witness: a template with a profile of another type and a further field
\* of the pod-level security context set.
C5_Witness ==
    /\ Called
    /\ newPodSpec.SecurityContext =
           Ptr([RunAsNonRoot |-> Ptr(TRUE), SeccompProfile |-> Ptr([Type |-> "Unconfined"])])

\* What DefaultPodSpec is to make of a secret or config-map source.
FilledSource(src, mode) ==
    IF src /= Nil /\ src[1].DefaultMode = Nil THEN Ptr([DefaultMode |-> Ptr(mode)]) ELSE src

\* C8: DefaultPodSpec keeps the number, order and names of the volumes, keeps a
\* source whose mode is set and an absent source as they are, and gives a
\* source whose mode is unset the default mode of its kind.
C8_VolumesFillOnly ==
    Called =>
        /\ Len(Out.Volumes) = Len(newPodSpec.Volumes)
        /\ \A idx \in DOMAIN newPodSpec.Volumes :
               LET v == newPodSpec.Volumes[idx]
                   w == Out.Volumes[idx]
               IN /\ w.Name = v.Name
                  /\ w.Secret = FilledSource(v.Secret, 420)
                  /\ w.ConfigMap = FilledSource(v.ConfigMap, 420)

\* C8 witness: two volumes, a secret with mode 0400 and a config map without.
C8_Witness ==
    /\ Called
    /\ Len(newPodSpec.Volumes) = 2
    /\ newPodSpec.Volumes[1].Secret = Ptr([DefaultMode |-> Ptr(256)])
    /\ newPodSpec.Volumes[2].ConfigMap = Ptr([DefaultMode |-> Nil])
    /\ newPodSpec.Volumes[2].Secret = Nil

\* C9: a container has a security context after DefaultPodSpec exactly if it
\* arrived with one, in the init and in the main list, also when the old
\* template holds an isolation mode under its name.
C9_NoFabrication ==
    Called =>
        \A list \in Lists :
            /\ Len(ListOf(Out, list)) = Len(ListOf(newPodSpec, list))
            /\ \A j \in DOMAIN ListOf(newPodSpec, list) :
                   (ListOf(newPodSpec, list)[j].SecurityContext = Nil)
                       <=> (ListOf(Out, list)[j].SecurityContext = Nil)

\* C9 witness: a container without a security context under a name whose old
\* container holds an isolation mode.
C9_Witness ==
    /\ Called
    /\ \E list \in Lists : \E j \in DOMAIN ListOf(newPodSpec, list) :
           /\ ListOf(newPodSpec, list)[j].SecurityContext = Nil
           /\ Carried(ListOf(oldPodSpec, list), ListOf(newPodSpec, list)[j].Name) /= Nil

----------------------------------------------------------------------------
(* Properties of the wrappers, checked under Spec *)

PodSpecOf(o) ==
    IF o.Kind = "CronJob" THEN o.Spec.JobTemplate.Spec.Template.Spec ELSE o.Spec.Template.Spec

\* The fields of an object beside its pod template.
TopLevel(o) ==
    CASE o.Kind = "Deployment" -> o.Spec.Strategy
      [] o.Kind = "CronJob" -> [ConcurrencyPolicy |-> o.Spec.ConcurrencyPolicy]
      [] OTHER -> o.Spec.UpdateStrategy

Succeeded == calls > 0 /\ err = ""

DefaultBounds ==
    Ptr([MaxSurge |-> Ptr([Type |-> "Int", IntVal |-> 1, StrVal |-> ""]),
         MaxUnavailable |-> Ptr([Type |-> "Int", IntVal |-> 0, StrVal |-> ""])])

C7_ErrorShortCircuit ==
    (calls > 0 /\ proposed[1].err /= "") =>
        /\ ret = Nil
        /\ err = proposed[1].err
        /\ obj = proposed[1].d

\* C7 witness: a CronJob whose reconciler rebuilt the template and then failed.
C7_Witness ==
    /\ calls > 0
    /\ err = "conflict"
    /\ obj.Kind = "CronJob"
    /\ obj /= old[1]

\* C10: with a reconciler that rebuilds the same template on every call and
\* never fails, the object the second and every later call returns equals the
\* object that call was given.
C10_FixedPoint ==
    (calls >= 2 /\ err = "") => ret = old /\ obj = ret[1]

\* C10 witness: a second call, of an object whose container holds an isolation
\* mode that the rebuilt template does not set.
C10_Witness ==
    /\ calls >= 2 /\ err = ""
    /\ \E j \in DOMAIN template.Containers :
           /\ template.Containers[j].SecurityContext = Ptr([ProcMount |-> Nil])
           /\ PodSpecOf(obj).Containers[j].SecurityContext = Ptr([ProcMount |-> Ptr("Unmasked")])

====
